---- MODULE Spec2Model ----
(***************************************************************************)
(* h2tp: the request engine of src/index.ts.                               *)
(*                                                                         *)
(* One top-level call httpreq(opt) is modelled together with every hop it  *)
(* starts.  A hop is one invocation of httpreq: header normalisation, the  *)
(* optional proxy CONNECT negotiation (proxyTunnelAgent) and the request   *)
(* attempt (execRequest) with its closure state.  The transport, the       *)
(* proxy, the server and the timer are the environment: their events are   *)
(* the actions of the model.                                               *)
(*                                                                         *)
(* Strings are modelled as follows.  A URL string is the record of its     *)
(* components (kind "abs") or a path-absolute reference (kind "rel").      *)
(* A header value is a tuple of tokens, the empty string being << >>.      *)
(* An optional field is None (undefined) or Some(v).                       *)
(***************************************************************************)
EXTENDS Integers, Sequences, FiniteSets, TLC

VARIABLES opt, hdrObj, hops, crashed

vars == <<opt, hdrObj, hops, crashed>>

\* ---------------------------------------------------------------- bounds

\* the server redirects a call through at most MaxHops hops
MaxHops == 2

\* a response body arrives in at most MaxChunks chunks
MaxChunks == 1

\* ------------------------------------------------------ program constants

DefaultTimeout == 120000

DefaultMaxRedirs == 10

DefaultTunnelPort == 443

\* -------------------------------------------------------- optional values

None == << >>

Some(v) == <<v>>

IsUndefined(x) == x = None

\* the value of a defined optional
Val(x) == x[1]

\* ------------------------------------------------------------------ URLs

AbsUrl(scheme, user, pass, host, port, path, query) ==
    [kind |-> "abs", scheme |-> scheme, user |-> user, pass |-> pass,
     host |-> host, port |-> port, path |-> path, query |-> query]

RelRef(path, query) ==
    [kind |-> "rel", scheme |-> "", user |-> "", pass |-> "",
     host |-> "", port |-> 0, path |-> path, query |-> query]

\* the value thrown by the URL constructor
InvalidUrl ==
    [kind |-> "invalid", scheme |-> "", user |-> "", pass |-> "",
     host |-> "", port |-> 0, path |-> "", query |-> ""]

\* new URL(input, base): the base is parsed first and must be absolute; an
\* absolute input is returned as it is, a relative one takes the base's origin
NewURL2(input, base) ==
    IF base.kind # "abs" THEN InvalidUrl
    ELSE IF input.kind = "abs" THEN input
    ELSE IF input.kind = "rel"
         THEN [base EXCEPT !.kind = "abs", !.path = input.path, !.query = input.query]
         ELSE InvalidUrl

\* new URL(input)
NewURL(input) == IF input.kind = "abs" THEN input ELSE InvalidUrl

\* url.format(u, { auth: false })
FormatNoAuth(u) == [u EXCEPT !.user = "", !.pass = ""]

\* /^https/.test(s)
TestHttps(u) == u.kind = "abs" /\ u.scheme = "https"

\* decodeURIComponent on the user names and passwords of the model
decodeURIComponent(s) ==
    CASE s = "a%40b" -> "a@b"
      [] s = "p%3Aw" -> "p:w"
      [] OTHER -> s

\* `Basic ${Buffer.from(`${user}:${pass}`).toString('base64')}`
Basic(user, pass) == <<"Basic", user, ":", pass>>

\* --------------------------------------------------------------- headers

\* header.toLowerCase().trim() on the header names of the model
LowerTrim(k) ==
    CASE k \in {"host", "Host", "HOST", " host "} -> "host"
      [] k \in {"authorization", "Authorization"} -> "authorization"
      [] k \in {"proxy-authorization", "Proxy-Authorization"} -> "proxy-authorization"
      [] k \in {"accept-encoding", "Accept-Encoding"} -> "accept-encoding"
      [] k \in {"content-type", "Content-Type"} -> "content-type"
      [] k \in {"x-trace", "X-Trace"} -> "x-trace"
      [] OTHER -> k

\* !headers[name]: the header is absent or its value is the empty string
Falsy(headers, name) == name \notin DOMAIN headers \/ headers[name] = << >>

\* headers[name] = value
SetHeader(headers, name, value) ==
    [k \in DOMAIN headers \cup {name} |-> IF k = name THEN value ELSE headers[k]]

\* delete headers[name]
DeleteKey(headers, name) == [k \in DOMAIN headers \ {name} |-> headers[k]]

\* Object.keys(options.headers).forEach(h => headers[lower(h)] = options.headers[h])
\* (no two names of one mapping of the model normalise to the same name)
LowerCaseHeaders(src) ==
    [k \in {LowerTrim(h) : h \in DOMAIN src} |->
        src[CHOOSE h \in DOMAIN src : LowerTrim(h) = k]]

\* --------------------------------------------------------------- payload

StringPayload(text) == [type |-> "string", text |-> text]

ObjectPayload(text) == [type |-> "object", text |-> text]

BufferPayload(text) == [type |-> "buffer", text |-> text]

\* typeof payload === 'object' (a Buffer is an object)
TypeofObject(p) == ~IsUndefined(p) /\ Val(p).type \in {"object", "buffer"}

\* the JSON text of the payloads of the model
JSONText(p) ==
    CASE p.type = "object" /\ p.text = "{data:dummy}" -> "{\"data\":\"dummy\"}"
      [] p.type = "buffer" /\ p.text = "hi" -> "{\"type\":\"Buffer\",\"data\":[104,105]}"
      [] p.type = "string" /\ p.text = "hi" -> "\"hi\""
      [] OTHER -> "{}"

\* JSON.stringify(payload)
JSONstringify(p) == StringPayload(JSONText(p))

\* if (options.payload): undefined and the empty string are falsy
TruthyPayload(p) ==
    ~IsUndefined(p) /\ ~(Val(p).type = "string" /\ Val(p).text = "")

\* req.end(chunk) accepts a string or a Buffer and throws on anything else
EndThrows(p) == TruthyPayload(p) /\ Val(p).type \notin {"string", "buffer"}

\* ------------------------------------------------- httpreq: normalisation

\* { ...opt }: a shallow copy; options.headers still refers to the caller's
\* mapping object, whose content is the variable hdrObj
ShallowCopy(o) == o

\* (options.proxyTunneling || options.proxyTunneling === undefined)
\*     && /^https/.test(options.url)
isProxyTunneling(o) ==
    /\ \/ (~IsUndefined(o.proxyTunneling) /\ Val(o.proxyTunneling))
       \/ IsUndefined(o.proxyTunneling)
    /\ TestHttps(o.url)

\* options.proxy && !isProxyTunneling
ViaProxy(o) == ~IsUndefined(o.proxy) /\ ~isProxyTunneling(o)

\* /^https/.test((options.proxy && !isProxyTunneling) ? options.proxy : options.url)
isHTTPS(o) == TestHttps(IF ViaProxy(o) THEN Val(o.proxy) ELSE o.url)

\* new URL(options.proxy && !isProxyTunneling ? options.proxy : options.url)
serverUrl(o) == NewURL(IF ViaProxy(o) THEN Val(o.proxy) ELSE o.url)

\* headers['proxy-authorization'] = Basic of the decoded proxy userinfo
addProxyAuthorization(headers, proxyUrl) ==
    IF proxyUrl.user # ""
    THEN SetHeader(headers, "proxy-authorization",
                   Basic(decodeURIComponent(proxyUrl.user),
                         decodeURIComponent(proxyUrl.pass)))
    ELSE headers

\* the lowercased copy of the caller's headers
HeadersCopied(o, live) ==
    IF ~IsUndefined(o.headers) THEN LowerCaseHeaders(live) ELSE << >>

HeadersAuth(o, h) ==
    LET u == NewURL(o.url) IN
    IF Falsy(h, "authorization") /\ (u.user # "" \/ u.pass # "")
    THEN SetHeader(h, "authorization", Basic(u.user, u.pass))
    ELSE h

HeadersProxyAuth(o, h) ==
    IF Falsy(h, "proxy-authorization") /\ ViaProxy(o) /\ serverUrl(o).user # ""
    THEN addProxyAuthorization(h, serverUrl(o))
    ELSE h

HeadersHost(o, h) ==
    IF Falsy(h, "host")
    THEN SetHeader(h, "host", <<NewURL(FormatNoAuth(NewURL(o.url))).host>>)
    ELSE h

HeadersEncoding(o, h) ==
    IF /\ \/ (~IsUndefined(o.compression) /\ Val(o.compression))
          \/ IsUndefined(o.compression)
       /\ Falsy(h, "accept-encoding")
    THEN SetHeader(h, "accept-encoding", <<"gzip, deflate">>)
    ELSE h

\* typeof options.payload === 'object' && !headers['content-type']
SerializesPayload(o, h) == TypeofObject(o.payload) /\ Falsy(h, "content-type")

HeadersContentType(o, h) ==
    IF SerializesPayload(o, h)
    THEN SetHeader(h, "content-type", <<"application/json">>)
    ELSE h

\* the header mapping when the payload is looked at
HeadersBeforePayload(o, live) ==
    HeadersEncoding(o,
        HeadersHost(o,
            HeadersProxyAuth(o,
                HeadersAuth(o, HeadersCopied(o, live)))))

\* the header mapping of the request, built in the order of the code
NormalizeHeaders(o, live) == HeadersContentType(o, HeadersBeforePayload(o, live))

\* options after the defaults and the payload serialisation
NormalizeOptions(o, live) ==
    [o EXCEPT
        !.url = FormatNoAuth(NewURL(o.url)),
        !.timeout = IF IsUndefined(o.timeout) THEN Some(DefaultTimeout) ELSE o.timeout,
        !.maxRedirs = IF IsUndefined(o.maxRedirs) THEN Some(DefaultMaxRedirs)
                      ELSE o.maxRedirs,
        !.payload =
            IF SerializesPayload(o, HeadersBeforePayload(o, live))
            THEN Some(JSONstringify(Val(o.payload)))
            ELSE o.payload]

\* config: http.RequestOptions
Config(o, live) ==
    [protocol |-> serverUrl(o).scheme,
     host     |-> serverUrl(o).host,
     port     |-> serverUrl(o).port,
     method   |-> o.method,
     path     |-> IF ViaProxy(o)
                  THEN [full |-> TRUE, url |-> FormatNoAuth(NewURL(o.url)),
                        path |-> "", query |-> ""]
                  ELSE [full |-> FALSE, url |-> InvalidUrl,
                        path |-> serverUrl(o).path, query |-> ""],
     headers  |-> NormalizeHeaders(o, live),
     agent    |-> "none"]

\* a tunnel test that does not look at options.proxyTunneling
NeedsTunnelWhateverFlag(o) == ~IsUndefined(o.proxy) /\ TestHttps(o.url)

\* options.agent === undefined && options.proxy && isProxyTunneling
NeedsTunnel(o) == ~IsUndefined(o.proxy) /\ isProxyTunneling(o)

\* proxyTunnelAgent(options.proxy, serverUrl.hostname, +serverUrl.port || 443):
\* the CONNECT request sent to the proxy
ConnectRequest(o) ==
    LET proxyUrl == NewURL(Val(o.proxy)) IN
    [protocol |-> proxyUrl.scheme,
     host     |-> proxyUrl.host,
     port     |-> proxyUrl.port,
     method   |-> "CONNECT",
     path     |-> <<serverUrl(o).host,
                    IF serverUrl(o).port # 0 THEN serverUrl(o).port
                    ELSE DefaultTunnelPort>>,
     headers  |-> addProxyAuthorization([k \in {"host"} |-> <<serverUrl(o).host>>],
                                        proxyUrl)]

\* ------------------------------------------------------ errors, promises

NoUrl == InvalidUrl

\* a timeout message that shows the default timeout, not the configured one
ErrTimeoutDefault(o) ==
    [kind |-> "Timeout", timeout |-> DefaultTimeout, method |-> o.method,
     url |-> o.url, status |-> 0]

\* the Error objects of the engine, by the parts their message is built from
ErrTimeout(o) ==
    [kind |-> "Timeout", timeout |-> Val(o.timeout), method |-> o.method,
     url |-> o.url, status |-> 0]

ErrClosed(o) ==
    [kind |-> "Connection closed", timeout |-> 0, method |-> o.method,
     url |-> o.url, status |-> 0]

ErrProxyStatus(status) ==
    [kind |-> "Proxy tunnel status", timeout |-> 0, method |-> "",
     url |-> NoUrl, status |-> status]

\* an error object handed over by the transport or by the decoding stream
ErrExternal(kind) ==
    [kind |-> kind, timeout |-> 0, method |-> "", url |-> NoUrl, status |-> 0]

NoError == ErrExternal("")

NoResult == [status |-> 0, from |-> NoUrl, body |-> << >>, redirections |-> << >>]

Pending == [state |-> "pending", value |-> NoResult, reason |-> NoError]

Fulfilled(v) == [state |-> "fulfilled", value |-> v, reason |-> NoError]

Rejected(e) == [state |-> "rejected", value |-> NoResult, reason |-> e]

\* resolved with the promise of the next hop, whose outcome it takes
Adopted == [state |-> "adopted", value |-> NoResult, reason |-> NoError]

\* resolve(x) and reject(e) act on a pending promise only
Settle(promise, to) == IF promise.state = "pending" THEN to ELSE promise

\* ------------------------------------------------------------------ hops

NoResponse == [status |-> 0, location |-> None, left |-> 0]

\* the closure of execRequest right after the promise executor has run;
\* target is the URL the request of this attempt asks for.  When req.end
\* throws, the async executor swallows the exception: the request is never
\* sent (ended = FALSE) and the promise stays pending with the timer armed
execRequest(o, config, https) ==
    [stage        |-> "request",
     options      |-> o,
     target       |-> o.url,
     config       |-> config,
     isHTTPS      |-> https,
     tunnelError  |-> NoError,
     redirections |-> << >>,
     responded    |-> FALSE,
     handled      |-> FALSE,
     tid          |-> IF Val(o.timeout) # 0 THEN "armed" ELSE "unset",
     destroyed    |-> FALSE,
     closed       |-> FALSE,
     errored      |-> FALSE,
     ended        |-> ~EndThrows(o.payload),
     res          |-> NoResponse,
     stream       |-> "none",
     data         |-> << >>,
     promise      |-> Pending,
     settleCalls  |-> 0]

\* httpreq(opt) up to its first suspension: either the await of the proxy
\* tunnel or, with no tunnel to negotiate, the whole of execRequest's executor
httpreq(o0, live) ==
    LET o      == NormalizeOptions(ShallowCopy(o0), live)
        config == Config(ShallowCopy(o0), live)
        https  == isHTTPS(ShallowCopy(o0))
    IN  IF NeedsTunnel(o0)
        THEN [execRequest(o, config, https) EXCEPT
                 !.stage = "tunnel", !.tid = "unset", !.ended = FALSE]
        ELSE execRequest(o, config, https)

\* ------------------------------------------------------------ the caller

Url0 == AbsUrl("http", "", "", "h0", 0, "/a", "")

Url0Auth == AbsUrl("http", "user", "pw", "h0", 0, "/a", "")

Url0Tls == AbsUrl("https", "", "", "h0", 0, "/a", "")

Url0Query == AbsUrl("http", "", "", "h0", 0, "/a", "?q=1")

Url1 == AbsUrl("http", "", "", "h1", 0, "/b", "")

Proxy0 == AbsUrl("http", "", "", "p0", 8080, "/", "")

Proxy0Auth == AbsUrl("http", "a%40b", "pw", "p0", 8080, "/", "")

\* a header mapping with one entry
Hdr(name, value) == [k \in {name} |-> value]

BaseOpt ==
    [url |-> Url0, method |-> "GET", compression |-> None, headers |-> None,
     payload |-> None, timeout |-> None, proxy |-> None,
     proxyTunneling |-> None, maxRedirs |-> None]

HeaderChoices ==
    {None, Some(<< >>), Some(Hdr("host", <<"custom">>)), Some(Hdr("Host", <<"custom">>)),
     Some(Hdr("Content-Type", <<"text/plain">>)), Some(Hdr("accept-encoding", << >>)),
     Some(Hdr("Authorization", <<"token">>))}

PayloadChoices ==
    {None, Some(StringPayload("hi")), Some(StringPayload("")),
     Some(ObjectPayload("{data:dummy}")), Some(BufferPayload("hi"))}

\* the request descriptions of the model: payloads and headers; targets,
\* proxies and timeouts; redirect budgets
OptChoices ==
    {[BaseOpt EXCEPT !.method = "POST", !.payload = p, !.headers = h,
                     !.maxRedirs = Some(1), !.timeout = Some(50)] :
        p \in PayloadChoices, h \in {None, Some(Hdr("Content-Type", <<"text/plain">>))}}
    \cup {[BaseOpt EXCEPT !.headers = h, !.url = u, !.maxRedirs = Some(1)] :
        h \in HeaderChoices, u \in {Url0, Url0Auth}}
    \cup {[BaseOpt EXCEPT !.url = u, !.proxy = x, !.proxyTunneling = t,
                          !.timeout = Some(50), !.maxRedirs = Some(0)] :
        u \in {Url0, Url0Tls}, x \in {None, Some(Proxy0), Some(Proxy0Auth)},
        t \in {None, Some(TRUE), Some(FALSE)}}
    \cup {[BaseOpt EXCEPT !.url = Url0Tls, !.proxy = Some(Proxy0), !.timeout = d,
                          !.maxRedirs = Some(1)] :
        d \in {None, Some(0)}}
    \cup {[BaseOpt EXCEPT !.url = u, !.proxy = x, !.maxRedirs = Some(0),
                          !.timeout = Some(0)] :
        u \in {Url0Query, Url0Auth}, x \in {None, Some(Proxy0), Some(Proxy0Auth)}}
    \cup {[BaseOpt EXCEPT !.maxRedirs = m, !.timeout = d] :
        m \in {None, Some(0), Some(1), Some(2)}, d \in {None, Some(0)}}
    \cup {[BaseOpt EXCEPT !.compression = c, !.maxRedirs = Some(0)] :
        c \in {None, Some(TRUE), Some(FALSE)}}

\* the content of the caller's headers mapping when the call is made
HeadersOf(o) == IF IsUndefined(o.headers) THEN << >> ELSE Val(o.headers)

Init ==
    /\ opt \in OptChoices
    /\ hdrObj = HeadersOf(opt)
    /\ hops = << >>
    /\ crashed = FALSE

\* the caller calls httpreq(opt)
Call ==
    /\ hops = << >>
    /\ ~crashed
    /\ hops' = <<httpreq(opt, hdrObj)>>
    /\ UNCHANGED <<opt, hdrObj, crashed>>

\* ------------------------------------------------- execRequest: handlers

\* a handle() that marks the attempt handled and leaves the timer alone
handleKeepsTimer(h) == IF ~h.handled THEN [h EXCEPT !.handled = TRUE] ELSE h

\* handle(): the first call marks the attempt handled and clears the timer
handle(h) ==
    IF ~h.handled
    THEN [h EXCEPT !.handled = TRUE,
                   !.tid = IF h.tid = "armed" THEN "cleared" ELSE h.tid]
    ELSE h

\* resolve(x) or reject(e) is called on the attempt's promise
settle(h, to) ==
    [h EXCEPT !.promise = Settle(h.promise, to), !.settleCalls = h.settleCalls + 1]

\* a redirect test that follows a redirect whatever budget is left
IsRedirectAnyBudget(o, status, location) ==
    /\ status >= 300
    /\ status <= 399
    /\ Val(o.maxRedirs) >= 0
    /\ ~IsUndefined(location)

\* a redirect test that does not look at the status
IsRedirectAnyStatus(o, status, location) ==
    /\ Val(o.maxRedirs) > 0
    /\ ~IsUndefined(location)

\* res.statusCode >= 300 && res.statusCode <= 399
\*     && options.maxRedirs > 0 && res.headers['location']
IsRedirect(o, status, location) ==
    /\ status >= 300
    /\ status <= 399
    /\ Val(o.maxRedirs) > 0
    /\ ~IsUndefined(location)

\* new URL(options.url, res.headers['location']).toString()
redirUrl(o, location) == NewURL2(o.url, Val(location))

\* a redirect branch that leaves the budget as it is
RedirectedSameBudget(h, location) ==
    LET url == redirUrl(h.options, location) IN
    settle(handle([h EXCEPT
                      !.responded = TRUE,
                      !.redirections = Append(h.redirections, url),
                      !.options = [h.options EXCEPT !.url = url]]),
           Adopted)

\* the redirect branch of the response callback, up to handle(): the hop's
\* own state after the hand-over
Redirected(h, location) ==
    LET url == redirUrl(h.options, location) IN
    settle(handle([h EXCEPT
                      !.responded = TRUE,
                      !.redirections = Append(h.redirections, url),
                      !.options = [h.options EXCEPT
                                      !.url = url,
                                      !.maxRedirs = Some(Val(h.options.maxRedirs) - 1)]]),
           Adopted)

\* if (options.headers) delete options.headers['host']
HostDeleted(o, live) == IF ~IsUndefined(o.headers) THEN DeleteKey(live, "host") ELSE live

\* the statuses, locations and body lengths the server answers with
Statuses == {200, 301}

Locations == {None, Some(Url1), Some(RelRef("/r", ""))}

\* the server's response headers arrive: the callback given to http.request
ResponseHeaders(i, status, location, n) ==
    LET h == hops[i] IN
    /\ ~crashed
    /\ h.stage = "request"
    /\ h.ended /\ ~h.destroyed /\ ~h.closed
    /\ h.res = NoResponse
    /\ IF IsRedirect(h.options, status, location)
       THEN IF redirUrl(h.options, location).kind # "abs"
            THEN \* the URL constructor throws inside the callback
                 /\ crashed' = TRUE
                 /\ hops' = [hops EXCEPT ![i] = [h EXCEPT
                        !.responded = TRUE,
                        !.res = [status |-> status, location |-> location, left |-> 0]]]
                 /\ UNCHANGED hdrObj
            ELSE /\ Len(hops) < MaxHops
                 /\ hdrObj' = HostDeleted(h.options, hdrObj)
                 /\ hops' = Append(
                        [hops EXCEPT ![i] = [Redirected(h, location) EXCEPT
                            !.res = [status |-> status, location |-> location, left |-> 0]]],
                        httpreq(Redirected(h, location).options, hdrObj'))
                 /\ UNCHANGED crashed
       ELSE /\ hops' = [hops EXCEPT ![i] = [h EXCEPT
                            !.responded = TRUE,
                            !.res = [status |-> status, location |-> location, left |-> n],
                            !.stream = "streaming"]]
            /\ UNCHANGED <<hdrObj, crashed>>
    /\ UNCHANGED opt

\* a chunk of the body: the text of a chunk names the URL that was asked for
Chunk(h) == [from |-> h.target, status |-> h.res.status, part |-> h.res.left]

\* onData: data += chunk.toString()
BodyData(i) ==
    LET h == hops[i] IN
    /\ ~crashed
    /\ h.stream = "streaming" /\ ~h.destroyed /\ ~h.closed
    /\ h.res.left > 0
    /\ hops' = [hops EXCEPT ![i] = [h EXCEPT
                    !.data = Append(h.data, Chunk(h)),
                    !.res = [h.res EXCEPT !.left = h.res.left - 1]]]
    /\ UNCHANGED <<opt, hdrObj, crashed>>

\* the result object of onEnd
Result(h) ==
    [status |-> h.res.status, from |-> h.target, body |-> h.data,
     redirections |-> h.redirections]

\* onEnd
BodyEnd(i) ==
    LET h == hops[i] IN
    /\ ~crashed
    /\ h.stream = "streaming" /\ ~h.destroyed /\ ~h.closed
    /\ h.res.left = 0
    /\ hops' = [hops EXCEPT ![i] =
                    IF ~h.handled
                    THEN settle(handle([h EXCEPT !.stream = "ended"]),
                                Fulfilled(Result([h EXCEPT !.stream = "ended"])))
                    ELSE [h EXCEPT !.stream = "ended"]]
    /\ UNCHANGED <<opt, hdrObj, crashed>>

\* onError: the response or the decoding stream reports an error
StreamError(i) ==
    LET h == hops[i] IN
    /\ ~crashed
    /\ h.stream = "streaming"
    /\ hops' = [hops EXCEPT ![i] =
                    IF ~h.handled
                    THEN settle(handle([h EXCEPT !.stream = "errored"]),
                                Rejected(ErrExternal("stream")))
                    ELSE [h EXCEPT !.stream = "errored"]]
    /\ UNCHANGED <<opt, hdrObj, crashed>>

\* an attempt that has responded and is handled: every handler left is gated
\* by `responded` or by `handled`, so that no event of its request can act
\* any more, and the events of that request are not recorded any further
Inert(h) == h.responded /\ h.handled

\* req.on('error'): the request reports a transport error (errored records
\* that it did; a request reports at most one)
ReqError(i) ==
    LET h == hops[i] IN
    /\ ~crashed
    /\ h.stage = "request" /\ ~h.closed /\ ~h.errored
    /\ hops' = [hops EXCEPT ![i] =
                    IF ~h.responded /\ ~h.handled
                    THEN settle(handle([h EXCEPT !.errored = TRUE]),
                                Rejected(ErrExternal("transport")))
                    ELSE IF Inert(h) THEN h ELSE [h EXCEPT !.errored = TRUE]]
    /\ UNCHANGED <<opt, hdrObj, crashed>>

\* a close handler that rejects whatever has happened to the request
ReqCloseUngated(i) ==
    LET h == hops[i] IN
    /\ ~crashed
    /\ h.stage = "request" /\ ~h.closed
    /\ hops' = [hops EXCEPT ![i] =
                    settle(handle([h EXCEPT !.closed = TRUE]),
                           Rejected(ErrClosed(h.options)))]
    /\ UNCHANGED <<opt, hdrObj, crashed>>

\* req.on('close'): the last event of a request
ReqClose(i) ==
    LET h == hops[i] IN
    /\ ~crashed
    /\ h.stage = "request" /\ ~h.closed
    /\ hops' = [hops EXCEPT ![i] =
                    IF ~h.responded /\ ~h.handled
                    THEN settle(handle([h EXCEPT !.closed = TRUE]),
                                Rejected(ErrClosed(h.options)))
                    ELSE IF Inert(h) THEN h ELSE [h EXCEPT !.closed = TRUE]]
    /\ UNCHANGED <<opt, hdrObj, crashed>>

\* the callback of setTimeout(..., options.timeout)
TimerFire(i) ==
    LET h == hops[i] IN
    /\ ~crashed
    /\ h.stage = "request" /\ h.tid = "armed"
    /\ hops' = [hops EXCEPT ![i] =
                    IF ~h.handled
                    THEN settle(handle([h EXCEPT !.tid = "fired", !.destroyed = TRUE]),
                                Rejected(ErrTimeout(h.options)))
                    ELSE [h EXCEPT !.tid = "fired"]]
    /\ UNCHANGED <<opt, hdrObj, crashed>>

\* ------------------------------------------------------ proxyTunnelAgent

ConnectStatuses == {200, 407}

\* .on('connect'): the proxy answers the CONNECT request; on 200 httpreq
\* goes on to execRequest with the tunnel agent
ProxyConnect(i, status) ==
    LET h == hops[i] IN
    /\ ~crashed
    /\ h.stage = "tunnel"
    /\ hops' = [hops EXCEPT ![i] =
                    IF status = 200
                    THEN execRequest(h.options, [h.config EXCEPT !.agent = "tunnel"],
                                     h.isHTTPS)
                    ELSE [h EXCEPT !.stage = "tunnelFailed",
                                   !.tunnelError = ErrProxyStatus(status)]]
    /\ UNCHANGED <<opt, hdrObj, crashed>>

\* .on('error') of the CONNECT request
ProxyError(i) ==
    LET h == hops[i] IN
    /\ ~crashed
    /\ h.stage = "tunnel"
    /\ hops' = [hops EXCEPT ![i] = [h EXCEPT !.stage = "tunnelFailed",
                                             !.tunnelError = ErrExternal("transport")]]
    /\ UNCHANGED <<opt, hdrObj, crashed>>

\* ----------------------------------------------------- the specification

Hops == 1..Len(hops)

Next ==
    \/ Call
    \/ \E i \in Hops, status \in Statuses, location \in Locations, n \in 0..MaxChunks :
          ResponseHeaders(i, status, location, n)
    \/ \E i \in Hops : BodyData(i)
    \/ \E i \in Hops : BodyEnd(i)
    \/ \E i \in Hops : StreamError(i)
    \/ \E i \in Hops : ReqError(i)
    \/ \E i \in Hops : ReqClose(i)
    \/ \E i \in Hops : TimerFire(i)
    \/ \E i \in Hops, status \in ConnectStatuses : ProxyConnect(i, status)
    \/ \E i \in Hops : ProxyError(i)

Spec == Init /\ [][Next]_vars

\* the event loop runs the callback of every timer that is armed
FairSpec == Spec /\ \A i \in 1..MaxHops : WF_vars(i \in Hops /\ TimerFire(i))

\* the promise returned by the i-th invocation of httpreq
RECURSIVE PromiseOf(_)
PromiseOf(i) ==
    IF i > Len(hops) THEN Pending
    ELSE LET h == hops[i] IN
         CASE h.stage = "tunnel" -> Pending
           [] h.stage = "tunnelFailed" -> Rejected(h.tunnelError)
           [] h.promise.state = "adopted" -> PromiseOf(i + 1)
           [] OTHER -> h.promise

\* what the caller of the top-level call sees
Outcome == PromiseOf(1)

\* ======================================= the earlier variant: src/h2tp.ts
\* httpreq of src/h2tp.ts (src/unnamed/part_000 has the same redirect branch):
\* one function, no proxy tunnel, `options` is the caller's own object (the
\* variable opt), and the headers mapping is built anew by every invocation.

\* the port of a URL as it is written in the URL
PortText(port) == CASE port = 8080 -> "8080" [] OTHER -> ""

\* url.parse(s).host: the host name and the port
h2tp_host(u) == IF u.port = 0 THEN <<u.host>> ELSE <<u.host, ":", PortText(u.port)>>

\* url.parse(options.proxy ? options.proxy : options.url)
h2tp_serverUrl(o) == IF ~IsUndefined(o.proxy) THEN Val(o.proxy) ELSE o.url

\* url.resolve(from, to)
h2tp_resolve(from, to) ==
    IF to.kind = "abs" THEN to
    ELSE [from EXCEPT !.path = to.path, !.query = to.query]

\* the headers mapping before the payload is looked at
h2tp_headersBeforePayload(o, live) ==
    LET copied == IF ~IsUndefined(o.headers) THEN LowerCaseHeaders(live) ELSE << >> IN
    IF IsUndefined(o.proxy) /\ Falsy(copied, "host")
    THEN SetHeader(copied, "host", h2tp_host(h2tp_serverUrl(o)))
    ELSE copied

\* typeof options.payload === 'object' && !headers['content-type']
h2tp_serializes(o, live) ==
    TypeofObject(o.payload) /\ Falsy(h2tp_headersBeforePayload(o, live), "content-type")

h2tp_headers(o, live) ==
    IF h2tp_serializes(o, live)
    THEN SetHeader(h2tp_headersBeforePayload(o, live), "content-type",
                   <<"application/json">>)
    ELSE h2tp_headersBeforePayload(o, live)

\* the caller's object after the invocation has written to it
h2tp_options(o, live) ==
    [o EXCEPT
        !.maxRedirs = IF IsUndefined(o.maxRedirs) THEN Some(DefaultMaxRedirs)
                      ELSE o.maxRedirs,
        !.payload = IF h2tp_serializes(o, live)
                    THEN Some(JSONstringify(Val(o.payload)))
                    ELSE o.payload]

\* the options given to http.request
h2tp_config(o, live) ==
    [protocol |-> h2tp_serverUrl(o).scheme,
     host     |-> h2tp_serverUrl(o).host,
     port     |-> h2tp_serverUrl(o).port,
     method   |-> o.method,
     path     |-> IF ~IsUndefined(o.proxy)
                  THEN [full |-> TRUE, url |-> o.url, path |-> "", query |-> ""]
                  ELSE [full |-> FALSE, url |-> InvalidUrl,
                        path |-> h2tp_serverUrl(o).path,
                        query |-> h2tp_serverUrl(o).query],
     headers  |-> h2tp_headers(o, live)]

\* one invocation of httpreq: the executor of its promise, run to its end
\* (a throw of req.end rejects the promise)
h2tp_httpreq(o, live) ==
    [target      |-> o.url,
     config      |-> h2tp_config(o, live),
     isHTTPS     |-> TestHttps(o.url),
     handled     |-> FALSE,
     timer       |-> IF ~IsUndefined(o.timeout) /\ Val(o.timeout) # 0
                     THEN "armed" ELSE "unset",
     aborted     |-> FALSE,
     closed      |-> FALSE,
     errored     |-> FALSE,
     ended       |-> ~EndThrows(h2tp_options(o, live).payload),
     res         |-> NoResponse,
     stream      |-> "none",
     data        |-> << >>,
     promise     |-> IF EndThrows(h2tp_options(o, live).payload)
                     THEN Rejected(ErrExternal("TypeError")) ELSE Pending,
     settleCalls |-> 0]

\* `Never got the response while requesting [${method}] ${url}`
h2tp_ErrNever(o) ==
    [kind |-> "Never got the response", timeout |-> 0, method |-> o.method,
     url |-> o.url, status |-> 0]

h2tp_OptChoices ==
    {[BaseOpt EXCEPT !.url = u, !.proxy = x, !.maxRedirs = m, !.timeout = d] :
        u \in {Url0, Url0Query}, x \in {None, Some(Proxy0)},
        m \in {None, Some(0), Some(1)}, d \in {None, Some(50)}}
    \cup {[BaseOpt EXCEPT !.method = "POST", !.payload = p, !.headers = h] :
        p \in {Some(ObjectPayload("{data:dummy}")), Some(StringPayload("hi"))},
        h \in {None, Some(Hdr("Host", <<"custom">>)),
               Some(Hdr("Content-Type", <<"text/plain">>))}}

h2tp_Init ==
    /\ opt \in h2tp_OptChoices
    /\ hdrObj = HeadersOf(opt)
    /\ hops = << >>
    /\ crashed = FALSE

\* (res.statusCode >= 300 || res.statusCode <= 399)
\*     && options.maxRedirs > 0 && res.headers['location']
h2tp_isRedirect(o, status, location) ==
    /\ (status >= 300 \/ status <= 399)
    /\ Val(o.maxRedirs) > 0
    /\ ~IsUndefined(location)

\* the caller calls httpreq(opt)
h2tp_Call ==
    /\ hops = << >>
    /\ hops' = <<h2tp_httpreq(opt, hdrObj)>>
    /\ opt' = h2tp_options(opt, hdrObj)
    /\ UNCHANGED <<hdrObj, crashed>>

\* the callback given to http.request: the response headers arrive
h2tp_Response(i, status, location, n) ==
    LET h == hops[i]
        r == [status |-> status, location |-> location, left |-> n]
    IN
    /\ h.ended /\ ~h.aborted /\ ~h.closed
    /\ h.res = NoResponse
    /\ IF h2tp_isRedirect(opt, status, location)
       THEN LET o == [opt EXCEPT
                         !.url = h2tp_resolve(opt.url, Val(location)),
                         !.maxRedirs = Some(Val(opt.maxRedirs) - 1)]
            IN  /\ Len(hops) < MaxHops
                /\ opt' = h2tp_options(o, hdrObj)
                /\ hops' = Append(
                       [hops EXCEPT ![i] = settle([h EXCEPT
                           !.res = r,
                           !.config = [h.config EXCEPT
                                          !.headers = DeleteKey(h.config.headers, "host")],
                           !.handled = TRUE], Adopted)],
                       h2tp_httpreq(o, hdrObj))
       ELSE /\ hops' = [hops EXCEPT ![i] = [h EXCEPT !.res = r, !.stream = "streaming"]]
            /\ UNCHANGED opt
    /\ UNCHANGED <<hdrObj, crashed>>

\* res.on('data')
h2tp_onData(i) ==
    LET h == hops[i] IN
    /\ h.stream = "streaming" /\ ~h.aborted /\ ~h.closed
    /\ h.res.left > 0
    /\ hops' = [hops EXCEPT ![i] = [h EXCEPT
                    !.data = Append(h.data, Chunk(h)),
                    !.res = [h.res EXCEPT !.left = h.res.left - 1]]]
    /\ UNCHANGED <<opt, hdrObj, crashed>>

\* res.on('end')
h2tp_onEnd(i) ==
    LET h == hops[i] IN
    /\ h.stream = "streaming" /\ ~h.aborted /\ ~h.closed
    /\ h.res.left = 0
    /\ hops' = [hops EXCEPT ![i] =
                    settle([h EXCEPT !.stream = "ended", !.handled = TRUE],
                           Fulfilled([status |-> h.res.status, from |-> h.target,
                                      body |-> h.data, redirections |-> << >>]))]
    /\ UNCHANGED <<opt, hdrObj, crashed>>

\* res.on('error', e => reject(e))
h2tp_onError(i) ==
    LET h == hops[i] IN
    /\ h.stream = "streaming"
    /\ hops' = [hops EXCEPT ![i] =
                    settle([h EXCEPT !.stream = "errored"],
                           Rejected(ErrExternal("stream")))]
    /\ UNCHANGED <<opt, hdrObj, crashed>>

\* req.on('error', e => reject(e))
h2tp_reqError(i) ==
    LET h == hops[i] IN
    /\ ~h.closed /\ ~h.errored
    /\ hops' = [hops EXCEPT ![i] =
                    settle([h EXCEPT !.errored = TRUE],
                           Rejected(ErrExternal("transport")))]
    /\ UNCHANGED <<opt, hdrObj, crashed>>

\* req.on('close')
h2tp_reqClose(i) ==
    LET h == hops[i] IN
    /\ ~h.closed
    /\ hops' = [hops EXCEPT ![i] =
                    IF ~h.handled
                    THEN settle([h EXCEPT !.closed = TRUE], Rejected(h2tp_ErrNever(opt)))
                    ELSE [h EXCEPT !.closed = TRUE]]
    /\ UNCHANGED <<opt, hdrObj, crashed>>

\* socket.on('timeout', () => req.abort())
h2tp_socketTimeout(i) ==
    LET h == hops[i] IN
    /\ h.timer = "armed" /\ ~h.closed
    /\ hops' = [hops EXCEPT ![i] = [h EXCEPT !.timer = "fired", !.aborted = TRUE]]
    /\ UNCHANGED <<opt, hdrObj, crashed>>

h2tp_Next ==
    \/ h2tp_Call
    \/ \E i \in Hops, status \in Statuses, location \in Locations, n \in 0..MaxChunks :
          h2tp_Response(i, status, location, n)
    \/ \E i \in Hops : h2tp_onData(i)
    \/ \E i \in Hops : h2tp_onEnd(i)
    \/ \E i \in Hops : h2tp_onError(i)
    \/ \E i \in Hops : h2tp_reqError(i)
    \/ \E i \in Hops : h2tp_reqClose(i)
    \/ \E i \in Hops : h2tp_socketTimeout(i)

h2tp_Spec == h2tp_Init /\ [][h2tp_Next]_vars

\* ================================================================ claims

\* the hops whose response was taken as a redirect
Redirecting(i) == hops[i].responded /\ hops[i].stream = "none"

\* C1: in one attempt at most one resolve or reject is performed, and once
\* the attempt is settled no event settles it again or starts a new attempt.
C1_SettledIsFinal ==
    [][\A i \in Hops :
          hops[i].handled =>
              /\ hops'[i].settleCalls = hops[i].settleCalls
              /\ (i = Len(hops) => Len(hops') = Len(hops))]_vars

\* C2: a successful result lists every redirect URL followed, in order, and
\* carries the body of the last URL of that list.
C2_RedirectionsListed ==
    Outcome.state = "fulfilled" =>
        /\ Outcome.value.redirections =
               [i \in 1..(Len(hops) - 1) |-> Val(hops[i].res.location)]
        /\ Len(hops) > 1 =>
               \A c \in 1..Len(Outcome.value.body) :
                   Outcome.value.body[c].from = Val(hops[Len(hops) - 1].res.location)

\* C3: the attempt after a redirect asks for the location resolved against
\* the URL of the redirected attempt, and that URL is the one recorded.
C3_RedirectTarget ==
    \A i \in Hops :
        Redirecting(i) =>
            /\ i < Len(hops)
            /\ hops[i + 1].target = NewURL2(Val(hops[i].res.location), hops[i].target)
            /\ hops[i].redirections =
                   <<NewURL2(Val(hops[i].res.location), hops[i].target)>>

\* a 3xx response with a location header
Is3xxWithLocation(res) ==
    res.status >= 300 /\ res.status <= 399 /\ ~IsUndefined(res.location)

\* C4: with a remaining budget of 0 a 3xx response with a location is not
\* followed and does not reject: it is streamed as a terminal response, no
\* attempt is started, and at the end of its body the attempt resolves with
\* that response and the body received.
C4_BudgetExhaustedIsTerminal ==
    [][\A i \in Hops :
          /\ (/\ hops[i].res = NoResponse
              /\ hops'[i].res # NoResponse
              /\ Is3xxWithLocation(hops'[i].res)
              /\ Val(hops[i].options.maxRedirs) = 0)
             => /\ Len(hops') = Len(hops)
                /\ ~crashed'
                /\ hops'[i].stream = "streaming"
                /\ hops'[i].promise = hops[i].promise
                /\ hops'[i].options = hops[i].options
          /\ (/\ Is3xxWithLocation(hops[i].res)
              /\ hops[i].stream = "streaming"
              /\ hops'[i].stream = "ended"
              /\ ~hops[i].handled)
             => /\ Len(hops') = Len(hops)
                /\ hops'[i].promise =
                       Fulfilled([status |-> hops[i].res.status, from |-> hops[i].target,
                                  body |-> hops[i].data,
                                  redirections |-> hops[i].redirections])]_vars

\* C4 witness: a call whose budget is used up has resolved with the 301
\* response of its second attempt.
C4_Witness ==
    /\ Len(hops) = 2
    /\ opt.maxRedirs = Some(1)
    /\ Is3xxWithLocation(hops[2].res)
    /\ hops[2].stream = "ended"
    /\ Outcome.state = "fulfilled"
    /\ Outcome.value.status = 301

\* C5: an attempt with timeout 0 arms no timer and never fails with a
\* timeout; a timeout failure carries the configured timeout, the method and
\* the URL of the attempt and goes with the destruction of the request; and
\* the timer of an attempt with a nonzero timeout does not stay armed for
\* ever: the attempt times out unless it settles otherwise.
C5_TimeoutFails ==
    /\ [](\A i \in Hops :
            LET h == hops[i] IN
            /\ (h.stage = "request" /\ Val(h.options.timeout) = 0)
                   => h.tid = "unset" /\ h.promise.reason.kind # "Timeout"
            /\ (h.stage = "request" /\ Val(h.options.timeout) # 0 /\ ~h.handled)
                   => h.tid = "armed"
            /\ h.tid = "fired"
                   => /\ h.destroyed
                      /\ h.promise.state = "rejected"
                      /\ h.promise.reason.kind = "Timeout"
                      /\ h.promise.reason.timeout =
                             (IF IsUndefined(opt.timeout) THEN DefaultTimeout
                              ELSE Val(opt.timeout))
                      /\ h.promise.reason.method = opt.method
                      /\ h.promise.reason.url = h.target
            /\ h.promise.reason.kind = "Timeout" => h.tid = "fired")
    /\ \A i \in 1..MaxHops :
          (i \in Hops /\ hops[i].tid = "armed")
              ~> \/ (i \in Hops /\ hops[i].tid = "fired")
                 \/ (i \in Hops /\ hops[i].handled)
                 \/ crashed

\* C5 witness: the server never answered and the attempt timed out.
C5_Witness ==
    /\ Len(hops) = 1
    /\ hops[1].res = NoResponse
    /\ ~hops[1].closed
    /\ hops[1].tid = "fired"
    /\ Outcome.state = "rejected"
    /\ Outcome.reason.kind = "Timeout"
    /\ Outcome.reason.timeout = 50

\* C6: while a call with a nonzero timeout is unsettled, a timer is armed
\* for it at every suspension point, the proxy CONNECT round trip included.
C6_TimerCoversCall ==
    (/\ hops # << >>
     /\ ~crashed
     /\ Outcome.state = "pending"
     /\ Val(hops[Len(hops)].options.timeout) # 0)
        => \E i \in Hops : hops[i].tid = "armed"

\* the caller supplied the header under some letter case
Supplied(name) == \E k \in DOMAIN HeadersOf(opt) : LowerTrim(k) = name

\* the value the caller supplied for the header
SuppliedValue(name) ==
    HeadersOf(opt)[CHOOSE k \in DOMAIN HeadersOf(opt) : LowerTrim(k) = name]

\* C7: a structured payload is sent as its JSON text, with content-type
\* application/json when the caller gave no content-type; a string or a
\* byte buffer is sent as it is and gets no content-type; what is handed to
\* the transport is a string or a buffer, so that sending does not throw.
C7_PayloadNormalized ==
    (hops # << >> /\ hops[1].stage = "request") =>
        LET sent    == hops[1].options.payload
            headers == hops[1].config.headers
        IN  /\ hops[1].ended
            /\ ~IsUndefined(sent) => Val(sent).type \in {"string", "buffer"}
            /\ (~IsUndefined(opt.payload) /\ Val(opt.payload).type = "object")
                   => /\ sent = Some(StringPayload(JSONText(Val(opt.payload))))
                      /\ ~Supplied("content-type")
                             => /\ "content-type" \in DOMAIN headers
                                /\ headers["content-type"] = <<"application/json">>
            /\ (~IsUndefined(opt.payload) /\ Val(opt.payload).type \in {"string", "buffer"})
                   => /\ sent = opt.payload
                      /\ ~Supplied("content-type") => "content-type" \notin DOMAIN headers

\* C8: after a redirect the host header of the new attempt is the host name
\* of the new target, whatever host header the caller gave.
C8_HostRegenerated ==
    \A i \in Hops :
        i > 1 => /\ "host" \in DOMAIN hops[i].config.headers
                 /\ hops[i].config.headers["host"] = <<hops[i].target.host>>

\* what the normaliser injects for a header, << >> when it injects nothing
Injected(name) ==
    CASE name = "authorization" ->
             IF opt.url.user # "" \/ opt.url.pass # ""
             THEN Basic(opt.url.user, opt.url.pass) ELSE << >>
      [] name = "proxy-authorization" ->
             IF ~IsUndefined(opt.proxy) /\ ~isProxyTunneling(opt) /\ Val(opt.proxy).user # ""
             THEN Basic(decodeURIComponent(Val(opt.proxy).user),
                        decodeURIComponent(Val(opt.proxy).pass))
             ELSE << >>
      [] name = "host" -> <<opt.url.host>>
      [] name = "accept-encoding" ->
             IF IsUndefined(opt.compression) \/ Val(opt.compression)
             THEN <<"gzip, deflate">> ELSE << >>
      [] OTHER -> << >>

\* C9: authorization, proxy-authorization, host and accept-encoding are
\* injected exactly when the caller did not supply them under any letter
\* case, a supplied value is never overwritten, and every outgoing header
\* name is lowercase.
C9_HeadersInjected ==
    hops # << >> =>
        LET headers == hops[1].config.headers IN
        /\ \A k \in DOMAIN headers : LowerTrim(k) = k
        /\ \A name \in {"authorization", "proxy-authorization", "host", "accept-encoding"} :
              IF Supplied(name)
              THEN name \in DOMAIN headers /\ headers[name] = SuppliedValue(name)
              ELSE IF Injected(name) # << >>
                   THEN name \in DOMAIN headers /\ headers[name] = Injected(name)
                   ELSE name \notin DOMAIN headers

\* C10: a call never changes the caller's request description, its headers
\* mapping included.
C10_CallerUntouched == hdrObj = HeadersOf(opt)

\* the hop negotiates, or has negotiated, a tunnel with the proxy
Tunnelled(h) == h.stage \in {"tunnel", "tunnelFailed"} \/ h.config.agent = "tunnel"

\* the conditions under which a tunnel is to be negotiated
TunnelWanted(h) ==
    /\ h.target.scheme = "https"
    /\ ~IsUndefined(h.options.proxy)
    /\ h.options.proxyTunneling # Some(FALSE)

\* C11: a tunnel is negotiated only for an HTTPS target with a proxy and
\* with tunnelling not set to false; the request to the target exists only
\* once the negotiation has succeeded; a failed negotiation (a status other
\* than 200, kept in the error, or a transport error) rejects the call with
\* that error, and no request to the target is made then or later.
C11_TunnelFirst ==
    /\ [](\A i \in Hops :
            LET h == hops[i] IN
            /\ Tunnelled(h) => TunnelWanted(h)
            /\ (h.stage = "request" /\ TunnelWanted(h)) => h.config.agent = "tunnel"
            /\ h.stage \in {"tunnel", "tunnelFailed"}
                   => /\ h.tid = "unset" /\ ~h.ended /\ h.res = NoResponse
                      /\ h.settleCalls = 0 /\ ~h.closed /\ ~h.errored
                      /\ i = Len(hops)
            /\ h.stage = "tunnelFailed"
                   => /\ PromiseOf(i) = Rejected(h.tunnelError)
                      /\ \/ h.tunnelError = ErrExternal("transport")
                         \/ /\ h.tunnelError.kind = "Proxy tunnel status"
                            /\ h.tunnelError.status \in ConnectStatuses \ {200}
                      /\ i = 1 => Outcome = Rejected(h.tunnelError))
    /\ [][\A i \in Hops :
             hops[i].stage = "tunnelFailed" => hops'[i] = hops[i]]_vars

\* C11 witness: the proxy answered the CONNECT request with 407 and the call
\* is rejected with that status.
C11_Witness ==
    /\ Len(hops) = 1
    /\ hops[1].stage = "tunnelFailed"
    /\ Outcome.state = "rejected"
    /\ Outcome.reason.kind = "Proxy tunnel status"
    /\ Outcome.reason.status = 407

\* C12: when the request closes before any response headers and the attempt
\* is not settled, the attempt is rejected with the connection-closed error
\* that names the method and the URL; a close after the headers or after the
\* settlement settles nothing, and no attempt that has got response headers
\* carries that error.
C12_CloseBeforeResponse ==
    /\ [][\A i \in Hops :
             (~hops[i].closed /\ hops'[i].closed)
                 => IF ~hops[i].responded /\ ~hops[i].handled
                    THEN /\ hops'[i].handled
                         /\ hops'[i].promise =
                                Rejected([ErrExternal("Connection closed") EXCEPT
                                             !.method = hops[i].config.method,
                                             !.url = hops[i].target])
                    ELSE /\ hops'[i].promise = hops[i].promise
                         /\ hops'[i].settleCalls = hops[i].settleCalls
                         /\ hops'[i].handled = hops[i].handled]_vars
    /\ [](\A i \in Hops :
            (/\ hops[i].promise.state = "rejected"
             /\ hops[i].promise.reason.kind = "Connection closed")
                => hops[i].closed /\ hops[i].res = NoResponse)

\* C12 witness: the request closed with no response and the call is rejected
\* with the connection-closed error.
C12_Witness ==
    /\ Len(hops) = 1
    /\ hops[1].closed /\ ~hops[1].responded
    /\ Outcome.state = "rejected"
    /\ Outcome.reason.kind = "Connection closed"
    /\ Outcome.reason.url = opt.url

\* the request goes to the proxy as a plain forwarded request
ProxiedUntunnelled(h) == ~IsUndefined(h.options.proxy) /\ ~TunnelWanted(h)

\* C13: the request path is the full absolute URL of the target when the
\* request goes through a proxy without a tunnel, and otherwise the path of
\* the target together with its query: the query is never dropped.
C13_PathKeepsQuery ==
    \A i \in Hops :
        LET h == hops[i] IN
        IF ProxiedUntunnelled(h)
        THEN h.config.path.full /\ h.config.path.url = h.target
        ELSE /\ ~h.config.path.full
             /\ h.config.path.path = h.target.path
             /\ h.config.path.query = h.target.query

\* the same without the query: the form of the path and its path part
C13_PathForm ==
    \A i \in Hops :
        LET h == hops[i] IN
        IF ProxiedUntunnelled(h)
        THEN h.config.path.full /\ h.config.path.url = h.target
        ELSE ~h.config.path.full /\ h.config.path.path = h.target.path

\* the step in which the response headers of hop i arrive
Responds(i) == hops[i].res = NoResponse /\ hops'[i].res # NoResponse

\* C14: the response callback takes the redirect branch exactly when the
\* status is in 300..399, the budget is above zero and a location header is
\* present (the branch then starts the next attempt, unless its URL
\* constructor throws); every other response is streamed and is terminal:
\* it starts no attempt, and only a 3xx response with a location is ever
\* followed by another attempt.
C14_RedirectIff ==
    /\ [][\A i \in Hops :
             Responds(i) =>
                 LET r == hops'[i].res IN
                 IF /\ r.status >= 300 /\ r.status <= 399
                    /\ Val(hops[i].options.maxRedirs) > 0
                    /\ r.location # None
                 THEN \/ crashed'
                      \/ /\ Len(hops') = Len(hops) + 1
                         /\ hops'[i].stream = "none"
                         /\ hops'[i].settleCalls = hops[i].settleCalls + 1
                 ELSE /\ ~crashed'
                      /\ Len(hops') = Len(hops)
                      /\ hops'[i].stream = "streaming"
                      /\ hops'[i].promise = hops[i].promise]_vars
    /\ [](\A i \in Hops :
            /\ i < Len(hops)
                   => /\ hops[i].res.status \in 300..399
                      /\ hops[i].res.location # None
                      /\ hops[i].stream = "none"
            /\ hops[i].stream # "none" => i = Len(hops))

\* C14 witness: with budget left, the second attempt got a 200 that carries
\* a location header, and streams it.
C14_Witness ==
    /\ Len(hops) = 2
    /\ hops[2].res.status = 200
    /\ hops[2].res.location = Some(Url1)
    /\ Val(hops[2].options.maxRedirs) > 0
    /\ hops[2].stream = "streaming"
    /\ hops[1].res.status = 301

\* C15: in the variant of src/h2tp.ts (and of src/unnamed/part_000) only a
\* response whose status is in 300..399 is followed by another attempt: a
\* response with any other status is not taken as a redirect, even when it
\* has a location header and the budget is above zero.
C15_VariantFollowsOnly3xx ==
    \A i \in Hops :
        i < Len(hops) => hops[i].res.status >= 300 /\ hops[i].res.status <= 399

\* the redirect budget the caller asked for
Budget == IF IsUndefined(opt.maxRedirs) THEN DefaultMaxRedirs ELSE Val(opt.maxRedirs)

\* C16: with a budget of n redirects (10 when the caller gives none), every
\* followed redirect takes exactly one off the budget, the budget is never
\* negative, a call makes at most n + 1 attempts, and the response of the
\* (n + 1)-th attempt is streamed as the terminal response whatever it is.
C16_BudgetCountsDown ==
    /\ [](\A i \in Hops :
            /\ Val(hops[i].options.maxRedirs) >= 0
            /\ Val(hops[i].options.maxRedirs) =
                   Budget - (i - 1) - (IF i < Len(hops) THEN 1 ELSE 0)
            /\ Len(hops) <= Budget + 1)
    /\ [][\A i \in Hops :
             Responds(i) =>
                 /\ Len(hops') > Len(hops)
                        => /\ Len(hops') = Len(hops) + 1
                           /\ Val(hops'[i].options.maxRedirs) =
                                  Val(hops[i].options.maxRedirs) - 1
                           /\ hops'[i + 1].options.maxRedirs = hops'[i].options.maxRedirs
                 /\ i = Budget + 1
                        => /\ Len(hops') = Len(hops)
                           /\ hops'[i].stream = "streaming"]_vars

\* C16 witness: a call with a budget of one is at its second attempt with
\* the budget at zero, and streams the 301 that attempt was answered with.
C16_Witness ==
    /\ Budget = 1
    /\ Len(hops) = 2
    /\ hops[1].options.maxRedirs = Some(0)
    /\ hops[2].options.maxRedirs = Some(0)
    /\ hops[2].res.status = 301
    /\ hops[2].res.location # None
    /\ hops[2].stream = "streaming"

\* C17: the timer of an attempt is armed when its request is created and
\* stays armed while the attempt is unsettled, through the response headers
\* and the streaming of the body; an attempt that is settled has no armed
\* timer, and the timer fires into unsettled attempts only; the attempt
\* started by a redirect has its own timer, of the same duration.
C17_TimerArmedUntilSettled ==
    /\ [](\A i \in Hops :
            LET h == hops[i] IN
            /\ (h.handled \/ h.promise.state # "pending") => h.tid # "armed"
            /\ (h.stage = "request" /\ Val(h.options.timeout) # 0 /\ ~h.handled)
                   => h.tid = "armed"
            /\ h.options.timeout = hops[1].options.timeout)
    /\ [][\A i \in Hops :
             (hops[i].tid = "armed" /\ hops'[i].tid = "fired")
                 => /\ ~hops[i].handled /\ hops[i].promise.state = "pending"
                    /\ hops'[i].handled
                    /\ hops'[i].promise.reason.kind = "Timeout"]_vars

\* C17 witness: the first attempt handed over to a redirect and its timer is
\* cleared; the second attempt has received a part of its body and its own
\* timer is armed.
C17_Witness ==
    /\ Len(hops) = 2
    /\ hops[1].handled /\ hops[1].tid = "cleared"
    /\ hops[2].stream = "streaming" /\ Len(hops[2].data) > 0
    /\ ~hops[2].handled /\ hops[2].tid = "armed"
    /\ hops[2].options.timeout = Some(50)

\* C18: a transport error reported on the request of an unsettled attempt,
\* before or after the response headers, settles the attempt as failed: an
\* attempt whose request has reported an error is always a settled one.
C18_TransportErrorFails ==
    \A i \in Hops : hops[i].errored => hops[i].handled

\* C19: the attempt started by a redirect sends no authorization that the
\* attempt before it had: neither the one derived from the userinfo of the
\* URL nor the one the caller supplied.
C19_AuthorizationStripped ==
    \A i \in Hops :
        i > 1 => "authorization" \notin DOMAIN hops[i].config.headers

\* the same for the credentials of the URL alone: the attempt after a
\* redirect has no authorization when the caller supplied none
C19_UrlCredentialsStripped ==
    \A i \in Hops :
        (i > 1 /\ ~Supplied("authorization"))
            => "authorization" \notin DOMAIN hops[i].config.headers

\* the caller gave a structured payload and no content-type
StructuredPayload ==
    /\ ~IsUndefined(opt.payload)
    /\ Val(opt.payload).type = "object"
    /\ ~Supplied("content-type")

\* the attempt sends the JSON text of the caller's payload as application/json
SendsJSON(h) ==
    /\ h.options.payload = Some(JSONstringify(Val(opt.payload)))
    /\ "content-type" \in DOMAIN h.config.headers
    /\ h.config.headers["content-type"] = <<"application/json">>

\* C20: when the caller gives a structured payload and no content-type,
\* every attempt of the call, the first and those after a redirect, sends
\* the JSON text of the payload with content-type application/json.
C20_JSONOnEveryAttempt ==
    StructuredPayload => \A i \in Hops : SendsJSON(hops[i])

\* the same for the first attempt alone
C20_JSONOnFirstAttempt ==
    (StructuredPayload /\ hops # << >>) => SendsJSON(hops[1])

====
